---- MODULE Spec2Model ----
(***************************************************************************)
(* Model of the numo-arb strategy (crates/strategies/numo-arb) and of the  *)
(* way bin/numo wires it into the engine.                                  *)
(*                                                                         *)
(* Integers.  The program computes on u128 and U256 values far above what  *)
(* the model checker's machine integers hold, so a natural number is kept  *)
(* as a little-endian sequence of limbs in radix Radix, without leading    *)
(* zero limbs (zero is the empty sequence).  The arithmetic below is exact *)
(* on naturals of any size; the width of a Rust type is imposed where the  *)
(* program imposes it (U128Max, wrap modulo 2^128, saturation).            *)
(*                                                                         *)
(* Floating point.  sofr.rs computes on f64.  The model computes the same  *)
(* expressions on exact rationals [n, d] of naturals and takes the floor   *)
(* where the program casts to an integer.                                  *)
(***************************************************************************)
EXTENDS Integers, Sequences, FiniteSets, TLC

\* ------------------------------------------------------------------------
\* Natural numbers of unbounded size (u128, U256, u64 of the program)
\* ------------------------------------------------------------------------

Radix == 100 * 100

Zero == <<>>

RECURSIVE Norm(_)
Norm(s) ==
    IF s = <<>> THEN <<>>
    ELSE IF s[Len(s)] = 0 THEN Norm(SubSeq(s, 1, Len(s) - 1))
    ELSE s

RECURSIVE N(_)
N(x) == IF x = 0 THEN <<>> ELSE <<x % Radix>> \o N(x \div Radix)

Limb(a, i) == IF i <= Len(a) THEN a[i] ELSE 0

MaxLen(a, b) == IF Len(a) >= Len(b) THEN Len(a) ELSE Len(b)

RECURSIVE LessFrom(_, _, _)
LessFrom(a, b, i) ==
    IF i = 0 THEN FALSE
    ELSE IF a[i] # b[i] THEN a[i] < b[i]
    ELSE LessFrom(a, b, i - 1)

Less(a, b) ==
    IF Len(a) # Len(b) THEN Len(a) < Len(b) ELSE LessFrom(a, b, Len(a))

Leq(a, b) == ~Less(b, a)

RECURSIVE AddFrom(_, _, _, _)
AddFrom(a, b, i, carry) ==
    IF i > MaxLen(a, b)
    THEN (IF carry = 0 THEN <<>> ELSE <<carry>>)
    ELSE LET s == Limb(a, i) + Limb(b, i) + carry
         IN  <<s % Radix>> \o AddFrom(a, b, i + 1, s \div Radix)

Add(a, b) == AddFrom(a, b, 1, 0)

RECURSIVE SubFrom(_, _, _, _)
SubFrom(a, b, i, borrow) ==
    IF i > Len(a) THEN <<>>
    ELSE LET d == Limb(a, i) - Limb(b, i) - borrow
         IN  IF d < 0
             THEN <<d + Radix>> \o SubFrom(a, b, i + 1, 1)
             ELSE <<d>> \o SubFrom(a, b, i + 1, 0)

\* a - b for a >= b
Sub(a, b) == Norm(SubFrom(a, b, 1, 0))

RECURSIVE MulSmallFrom(_, _, _, _)
MulSmallFrom(a, d, i, carry) ==
    IF i > Len(a)
    THEN (IF carry = 0 THEN <<>> ELSE <<carry>>)
    ELSE LET p == a[i] * d + carry
         IN  <<p % Radix>> \o MulSmallFrom(a, d, i + 1, p \div Radix)

\* a * d for a limb-sized d (0 <= d <= Radix)
MulSmall(a, d) == IF d = 0 THEN <<>> ELSE MulSmallFrom(a, d, 1, 0)

ShiftUp(a) == IF a = <<>> THEN <<>> ELSE <<0>> \o a

RECURSIVE Mul(_, _)
Mul(a, b) ==
    IF b = <<>> \/ a = <<>> THEN <<>>
    ELSE Add(MulSmall(a, Head(b)), ShiftUp(Mul(a, Tail(b))))

\* the largest digit q in lo..hi with b * q <= r (b * lo <= r is given)
RECURSIVE QuotDigit(_, _, _, _)
QuotDigit(r, b, lo, hi) ==
    IF lo = hi THEN lo
    ELSE LET mid == (lo + hi + 1) \div 2
         IN  IF Leq(MulSmall(b, mid), r)
             THEN QuotDigit(r, b, mid, hi)
             ELSE QuotDigit(r, b, lo, mid - 1)

\* Schoolbook long division from the most significant limb of a down: q and r
\* are the quotient and remainder of the limbs above i.  (The test on Len
\* makes the evaluation of q and r happen at each step.)
RECURSIVE DivLoop(_, _, _, _, _)
DivLoop(a, b, i, q, r) ==
    IF i = 0 \/ Len(q) + Len(r) < 0 THEN [q |-> q, r |-> r]
    ELSE LET cur == Norm(<<a[i]>> \o r)
             dg  == QuotDigit(cur, b, 0, Radix - 1)
         IN  DivLoop(a, b, i - 1, Norm(<<dg>> \o q), Sub(cur, MulSmall(b, dg)))

\* [q, r] with a = q * b + r and r < b, for b > 0
DivRem(a, b) == DivLoop(a, b, Len(a), <<>>, <<>>)

Div(a, b) == DivRem(a, b).q

Mod(a, b) == DivRem(a, b).r

RECURSIVE Pow(_, _)
Pow(x, k) == IF k = 0 THEN N(1) ELSE Mul(N(x), Pow(x, k - 1))

Min(a, b) == IF Less(b, a) THEN b ELSE a

Max(a, b) == IF Less(a, b) THEN b ELSE a

TwoPow32 == Mul(N(65536), N(65536))

TwoPow64 == Mul(TwoPow32, TwoPow32)

TwoPow128 == Mul(TwoPow64, TwoPow64)

\* u128::MAX, u32::MAX
U128Max == Sub(TwoPow128, N(1))

U32Max == Sub(TwoPow32, N(1))

\* U256::MAX
U256Max == Sub(Mul(TwoPow128, TwoPow128), N(1))

\* u128 saturating_add / saturating_sub, as used in pricing.rs and strategy.rs
SaturatingAdd(a, b) == Min(Add(a, b), U128Max)

SaturatingSub(a, b) == IF Less(a, b) THEN Zero ELSE Sub(a, b)

\* a - b on u128: the subtraction overflows for a < b, and the build decides
\* what happens then (overflow checks on: abort; off: wrap modulo 2^128)
CheckedSubU128(a, b) ==
    IF Leq(b, a) THEN {[panic |-> FALSE, v |-> Sub(a, b)]}
    ELSE {[panic |-> TRUE, v |-> Zero],
          [panic |-> FALSE, v |-> Sub(TwoPow128, Sub(b, a))]}

\* a * b on u128, likewise
CheckedMulU128(a, b) ==
    LET p == Mul(a, b)
    IN  IF Leq(p, U128Max) THEN {[panic |-> FALSE, v |-> p]}
        ELSE {[panic |-> TRUE, v |-> Zero],
              [panic |-> FALSE, v |-> Mod(p, TwoPow128)]}

\* Option and Result values: <<>> is None (or Err), <<x>> is Some(x) (or Ok(x))
None == <<>>

Some(x) == <<x>>

\* ------------------------------------------------------------------------
\* sofr.rs: f64 values as exact non-negative rationals [n, d], d > 0
\* ------------------------------------------------------------------------

Rat(n, d) == [n |-> n, d |-> d]

RatLeq(x, y) == Leq(Mul(x.n, y.d), Mul(y.n, x.d))

RatAdd(x, y) == Rat(Add(Mul(x.n, y.d), Mul(y.n, x.d)), Mul(x.d, y.d))

\* x - y for x >= y
RatSub(x, y) == Rat(Sub(Mul(x.n, y.d), Mul(y.n, x.d)), Mul(x.d, y.d))

RatMul(x, y) == Rat(Mul(x.n, y.n), Mul(x.d, y.d))

\* x / y for y > 0
RatDiv(x, y) == Rat(Mul(x.n, y.d), Mul(x.d, y.n))

RatOne == Rat(N(1), N(1))

RatZero == Rat(Zero, N(1))

\* a decimal literal with four places, 0.0520 = Dec4(520)
Dec4(x) == Rat(N(x), N(10000))

\* DayCount::year_fraction_from_seconds
year_fraction_from_seconds(day_count, seconds) ==
    LET days == Rat(seconds, N(86400))
    IN  IF day_count = "Act360"
        THEN RatDiv(days, Rat(N(360), N(1)))
        ELSE RatDiv(days, Rat(N(365), N(1)))

\* SofrCurve::time_to_maturity
time_to_maturity(curve, current_ts, maturity_ts) ==
    LET seconds_to_maturity == SaturatingSub(maturity_ts, current_ts)
    IN  year_fraction_from_seconds(curve.day_count, seconds_to_maturity)

\* the first knot i >= 2 with t <= knots[i].t (the loop of interpolate_rate)
RECURSIVE Bracket(_, _, _)
Bracket(knots, t, i) ==
    IF i > Len(knots) THEN 0
    ELSE IF RatLeq(t, knots[i].t) THEN i
    ELSE Bracket(knots, t, i + 1)

\* r0 + alpha * (r1 - r0)
lerp(alpha, r0, r1) ==
    IF RatLeq(r0, r1)
    THEN RatAdd(r0, RatMul(alpha, RatSub(r1, r0)))
    ELSE RatSub(r0, RatMul(alpha, RatSub(r0, r1)))

\* the body of interpolate_rate's loop at the bracketing knots i - 1 and i
interpolate_between(knots, t, i) ==
    IF i = 0 THEN knots[Len(knots)].rate
    ELSE lerp(RatDiv(RatSub(t, knots[i - 1].t),
                     RatSub(knots[i].t, knots[i - 1].t)),
              knots[i - 1].rate, knots[i].rate)

\* SofrCurve::interpolate_rate
interpolate_rate(curve, t) ==
    IF Len(curve.knots) = 0 THEN RatZero
    ELSE IF RatLeq(t, curve.knots[1].t) THEN curve.knots[1].rate
    ELSE IF RatLeq(curve.knots[Len(curve.knots)].t, t)
    THEN curve.knots[Len(curve.knots)].rate
    ELSE interpolate_between(curve.knots, t, Bracket(curve.knots, t, 2))

\* SofrCurve::discount_factor
discount_factor(curve, t) ==
    IF RatLeq(t, RatZero) THEN RatOne
    ELSE RatDiv(RatOne, RatAdd(RatOne, RatMul(interpolate_rate(curve, t), t)))

\* SofrCurve::default_usd
default_usd ==
    [knots |-> << [t |-> Dec4(28),    rate |-> Dec4(520)],
                  [t |-> Dec4(833),   rate |-> Dec4(515)],
                  [t |-> Dec4(2500),  rate |-> Dec4(500)],
                  [t |-> Dec4(5000),  rate |-> Dec4(475)],
                  [t |-> Dec4(10000), rate |-> Dec4(450)],
                  [t |-> Dec4(20000), rate |-> Dec4(425)] >>,
     day_count |-> "Act360"]

OneE18 == Mul(N(1000000000), N(1000000000))

\* U256::from((target_df * 1e18) as u128): the cast truncates toward zero and
\* saturates at u128::MAX
target_price_of(target_df) ==
    Min(Div(Mul(target_df.n, OneE18), target_df.d), U128Max)

\* ------------------------------------------------------------------------
\* pricing.rs
\* ------------------------------------------------------------------------

PRICE_PROBE_AMOUNT == Mul(N(1000000), N(1000000000))

MAX_BISECTION_ITERATIONS == 25

\* marginal_price_base_per_fy, from the answers of its two probes
\* (sellBasePreview, sellFYTokenPreview)
marginal_price_base_per_fy(fy_out_0, base_out_0) ==
    LET fy_out   == Max(fy_out_0, N(1))
        price1   == Div(Mul(PRICE_PROBE_AMOUNT, OneE18), fy_out)
        base_out == Max(base_out_0, N(1))
        price2   == Div(Mul(base_out, OneE18), PRICE_PROBE_AMOUNT)
    IN  Div(Add(price1, price2), N(2))

\* apply_slippage: the outcomes the build can produce
apply_slippage(amount, slippage_bps, is_max_in) ==
    { IF m.panic THEN m
      ELSE LET adjustment == Div(m.v, N(10000))
           IN  [panic |-> FALSE,
                v |-> IF is_max_in
                      THEN SaturatingAdd(amount, adjustment)
                      ELSE SaturatingSub(amount, adjustment)]
      : m \in CheckedMulU128(amount, slippage_bps) }

\* price_divergence_bps: the U256 product aborts when it does not fit 256
\* bits, and U256::as_u32 aborts on a value above u32::MAX
price_divergence_bps(pool_price, target_price) ==
    IF target_price = Zero THEN [panic |-> FALSE, v |-> Zero]
    ELSE LET diff == IF Less(target_price, pool_price)
                     THEN Sub(pool_price, target_price)
                     ELSE Sub(target_price, pool_price)
             divergence == Div(Mul(diff, N(10000)), target_price)
         IN  IF Less(U256Max, Mul(diff, N(10000)))
             THEN [panic |-> TRUE, v |-> Zero]
             ELSE IF Leq(divergence, U32Max)
                  THEN [panic |-> FALSE, v |-> divergence]
                  ELSE [panic |-> TRUE, v |-> Zero]

\* meets_edge_threshold
meets_edge_threshold(pool_price, target_price, edge_bps) ==
    LET divergence == price_divergence_bps(pool_price, target_price)
    IN  [panic |-> divergence.panic,
         v |-> ~divergence.panic /\ Leq(edge_bps, divergence.v)]

\* ------------------------------------------------------------------------
\* State
\* ------------------------------------------------------------------------

VARIABLES
    config,       \* NumoArb.config (types.rs Config), fixed at construction
    sofr_curve,   \* NumoArb.sofr_curve
    pool_states,  \* NumoArb.pool_states: address -> PoolState
    last_block,   \* NumoArb.last_block
    pc,           \* where the strategy task stands
    cyc,          \* locals of process_new_block / find_best_opportunity
    sol,          \* locals of solve_fy_amount_to_target
    env,          \* how the rich pool answers the solver's price queries
    hist,         \* history: what the task read and which steps it took
    call          \* a call of a pure function: its arguments and its outcome

vars == <<config, sofr_curve, pool_states, last_block, pc, cyc, sol, env,
          hist, call>>

\* ------------------------------------------------------------------------
\* Bounds and the answers the collaborators may give
\* ------------------------------------------------------------------------

\* block numbers delivered by the block feed: 1..MaxBlock
MaxBlock == 2

\* how often a free rich pool may change its answer during one solve
MaxSwitches == 1

\* configured pool lists (main.rs does not remove duplicates)
PoolLists ==
    { <<"A">>, <<"A", "B">>, <<"B", "A">>, <<"A", "B", "A">>,
      <<"A", "B", "C">> }

\* the wall-clock second every notification in the model carries
Now == N(1700000000)

\* maturity() answers: 360 days ahead (time to maturity 1.0) or already matured
MaturityFar == Add(Now, N(31104000))

MaturityPast == Now

\* a successful get_pool_state: (baseReserves, fyReserves, feeBps), maturity
StateReads ==
    { [base_reserves |-> N(1000000), fy_reserves |-> N(1000000),
       fee_bps |-> N(30), maturity |-> MaturityFar],
      [base_reserves |-> N(2000000), fy_reserves |-> N(1500000),
       fee_bps |-> N(30), maturity |-> MaturityPast] }

\* get_pool_state's answers: Err (getCache or maturity failed) or Ok(state)
StateAnswers == {None} \cup {Some(r) : r \in StateReads}

Giga == N(1000000000)

\* the two probe answers of one marginal-price query: a pool quoting about
\* 1.02 and about 0.9571 base per FY (the fair value is about 0.9569 one year
\* before maturity and 1 at maturity)
Quotes ==
    { [fy_out |-> Mul(N(980392), Giga),  base_out |-> Mul(N(1020000), Giga)],
      [fy_out |-> Mul(N(1044823), Giga), base_out |-> Mul(N(957100), Giga)] }

\* marginal_price_base_per_fy's answers: Err (a probe failed) or Ok(price)
PriceAnswers ==
    {None} \cup
    {Some(marginal_price_base_per_fy(q.fy_out, q.base_out)) : q \in Quotes}

TwoPow127 == Mul(TwoPow64, Mul(TwoPow32, Mul(N(65536), N(32768))))

\* buyFYTokenPreview / sellFYTokenPreview answers (u128), Err included
BuyAnswers == {None, Some(N(1000)), Some(N(1995))}

SellAnswers == {None, Some(N(900)), Some(N(2100)), Some(U128Max)}

\* estimate_gas answers
GasAnswers == {None, Some(N(210000))}

\* the Config main.rs builds: the defaults, with the two size caps set on the
\* command line
Configs ==
    { [pool_addresses |-> l, edge_bps |-> N(10), slippage_bps |-> N(50),
       max_fy_amount |-> N(1500), max_base_amount |-> N(2000),
       bid_percentage |-> N(80)] : l \in PoolLists }

\* ------------------------------------------------------------------------
\* strategy.rs: NumoArb
\* ------------------------------------------------------------------------

\* HashMap::insert
Insert(map, key, value) ==
    [k \in DOMAIN map \cup {key} |-> IF k = key THEN value ELSE map[k]]

EmptyMap == [k \in {} |-> Zero]

\* the locals of a cycle that has not computed anything yet
FreshCycle(block_number, timestamp) ==
    [block_number |-> block_number, current_ts |-> timestamp, idx |-> 1,
     pool_prices |-> <<>>, cheap_idx |-> 0, rich_idx |-> 0,
     target_price |-> Zero, fy_amount |-> Zero,
     max_base_in |-> Zero, min_base_out |-> Zero,
     expected_profit |-> Zero, max_base_in_slip |-> Zero,
     min_base_out_slip |-> Zero,
     opportunity |-> None, err |-> FALSE, actions |-> <<>>]

IdleSolver ==
    [lo |-> Zero, hi |-> Zero, best |-> Zero, iteration |-> 0,
     target_price_1e18 |-> Zero, max_fy_amount |-> Zero,
     ret |-> "idle", queries |-> 0, obs |-> <<>>]

\* a faulty variant of StartSolver: the loop counter starts one early, as
\* with a loop over 0..=MAX_BISECTION_ITERATIONS
StartSolverEarly(target_price_1e18, max_fy_amount) ==
    [lo |-> Zero, hi |-> max_fy_amount, best |-> Zero, iteration |-> -1,
     target_price_1e18 |-> target_price_1e18,
     max_fy_amount |-> max_fy_amount,
     ret |-> "running", queries |-> 0, obs |-> <<>>]

\* solve_fy_amount_to_target's locals on entry
StartSolver(target_price_1e18, max_fy_amount) ==
    [lo |-> Zero, hi |-> max_fy_amount, best |-> Zero, iteration |-> 0,
     target_price_1e18 |-> target_price_1e18,
     max_fy_amount |-> max_fy_amount,
     ret |-> "running", queries |-> 0, obs |-> <<>>]

LiveEnv == [kind |-> "live", cross |-> Zero, switches |-> 0, last |-> "none"]

NoCall == [fn |-> "none", args |-> <<>>, out |-> None]

FreshHist ==
    [trace |-> <<>>, syncs |-> 0, sync_idx |-> 1, sync_read |-> NoCall,
     read_at |-> EmptyMap, answers |-> <<>>, abort_by |-> "none"]

\* NumoArb::new, and the engine about to call sync_state
Init ==
    /\ config \in Configs
    /\ sofr_curve = default_usd
    /\ pool_states = EmptyMap
    /\ last_block = 0
    /\ pc = "sync"
    /\ cyc = FreshCycle(0, Zero)
    /\ sol = IdleSolver
    /\ env = LiveEnv
    /\ hist = FreshHist
    /\ call = NoCall

\* get_pool_state's result for one pool: the PoolState it builds, or Err
get_pool_state(answer, address) ==
    IF answer = None THEN None
    ELSE Some([address |-> address,
               base_reserves |-> answer[1].base_reserves,
               fy_reserves |-> answer[1].fy_reserves,
               fee_bps |-> answer[1].fee_bps,
               maturity |-> answer[1].maturity])

\* a variant whose failed read drops the pool's entry
sync_pool_dropping(states, pool_addr, result) ==
    IF result = None
    THEN [k \in DOMAIN states \ {pool_addr} |-> states[k]]
    ELSE Insert(states, pool_addr, result[1])

\* one pass of sync_state's loop body: Ok inserts, Err only warns
sync_pool(states, pool_addr, result) ==
    IF result = None THEN states ELSE Insert(states, pool_addr, result[1])

\* Strategy::sync_state, one configured pool per step (each step awaits the
\* pool's getCache and maturity); after the last pool it returns Ok(())
SyncState(answer) ==
    /\ pc = "sync"
    /\ LET i         == hist.sync_idx
           pool_addr == config.pool_addresses[i]
           result    == get_pool_state(answer, pool_addr)
           last      == i = Len(config.pool_addresses)
       IN  /\ pool_states' = sync_pool(pool_states, pool_addr, result)
           /\ hist' = [hist EXCEPT
                  !.sync_idx = i + 1,
                  !.sync_read = [fn |-> "get_pool_state",
                                 args |-> <<pool_addr, pool_states>>,
                                 out |-> result],
                  !.read_at = IF result = None THEN @
                              ELSE Insert(@, pool_addr, last_block),
                  !.syncs = IF last THEN @ + 1 ELSE @]
           /\ pc' = IF last THEN "idle" ELSE "sync"
    /\ UNCHANGED <<config, sofr_curve, last_block, cyc, sol, env, call>>

\* Iterator::min_by_key: the first of several equally minimum elements
min_by_key(pool_prices) ==
    CHOOSE i \in 1..Len(pool_prices) :
        /\ \A j \in 1..Len(pool_prices) :
               Leq(pool_prices[i].price, pool_prices[j].price)
        /\ \A j \in 1..(i - 1) :
               Less(pool_prices[i].price, pool_prices[j].price)

\* Iterator::max_by_key: the last of several equally maximum elements
max_by_key(pool_prices) ==
    CHOOSE i \in 1..Len(pool_prices) :
        /\ \A j \in 1..Len(pool_prices) :
               Leq(pool_prices[j].price, pool_prices[i].price)
        /\ \A j \in (i + 1)..Len(pool_prices) :
               Less(pool_prices[j].price, pool_prices[i].price)

\* the edge gate on the rich pool's price: "none" (Ok(None)), "panic" (the
\* conversion of the divergence aborts) or "solve" (go on to the solver)
edge_gate(edge, cheap_idx, rich_idx, target_price) ==
    [kind |-> IF edge.panic THEN "panic"
              ELSE IF ~edge.v THEN "none" ELSE "solve",
     cheap_idx |-> cheap_idx, rich_idx |-> rich_idx,
     target_price |-> target_price]

\* find_best_opportunity from the target price to the edge gate
gate_pools(pool_prices, cheap_idx, rich_idx, target_price, cfg) ==
    edge_gate(meets_edge_threshold(pool_prices[rich_idx].price, target_price,
                                   cfg.edge_bps),
              cheap_idx, rich_idx, target_price)

\* find_best_opportunity from the comparison of the two indices on
pick_pools(pool_prices, cheap_idx, rich_idx, curve, cfg) ==
    IF cheap_idx = rich_idx
    THEN [kind |-> "none", cheap_idx |-> 0, rich_idx |-> 0,
          target_price |-> Zero]
    ELSE gate_pools(pool_prices, cheap_idx, rich_idx,
                    target_price_of(
                        discount_factor(curve, pool_prices[rich_idx].ttm)),
                    cfg)

\* find_best_opportunity between its pricing loop and its call of the solver:
\* what it decides ("none": Ok(None); "panic": abort; "solve": go on)
select_pools(pool_prices, curve, cfg) ==
    IF pool_prices = <<>>
    THEN [kind |-> "none", cheap_idx |-> 0, rich_idx |-> 0,
          target_price |-> Zero]
    ELSE pick_pools(pool_prices, min_by_key(pool_prices),
                    max_by_key(pool_prices), curve, cfg)

\* a variant in which the cycle starts over with a sync step
ReturnToSync(c, h, steps) ==
    /\ pc' = "sync"
    /\ cyc' = c
    /\ hist' = [h EXCEPT !.trace = @ \o steps \o <<"END">>, !.sync_idx = 1]

\* process_new_block returns: the task waits for the next event
Return(c, h, steps) ==
    /\ pc' = "idle"
    /\ cyc' = c
    /\ hist' = [h EXCEPT !.trace = @ \o steps \o <<"END">>]

\* an arithmetic abort ends the strategy task
Abort(c, h, steps, by) ==
    /\ pc' = "panicked"
    /\ cyc' = c
    /\ hist' = [h EXCEPT !.trace = @ \o steps \o <<"ABORT">>,
                         !.abort_by = by]

\* process_event(NewBlock) -> process_new_block -> find_best_opportunity up
\* to its first price query.  The block number is stored as it comes: the
\* code does not compare it with last_block.
\* a faulty variant of stored_block: the counter keeps its old value
stored_block_kept(block_number) == last_block

\* self.last_block = block.block_number
stored_block(block_number) == block_number

NewBlock(block_number, timestamp) ==
    /\ pc = "idle"
    /\ last_block' = stored_block(block_number)
    /\ LET c == FreshCycle(block_number, timestamp)
           h == [hist EXCEPT !.trace = <<"SCAN">>, !.answers = <<>>,
                             !.sync_read = NoCall]
       IN  IF Cardinality(DOMAIN pool_states) < 2
           THEN Return(c, h, <<>>)
           ELSE pc' = "price" /\ cyc' = c /\ hist' = h
    /\ sol' = IdleSolver
    /\ UNCHANGED <<config, sofr_curve, pool_states, env, call>>

\* the pricing loop's body for one pool: Ok pushes (if the pool has a cached
\* state), Err only warns
price_pool(pool_prices, pool_addr, answer, states, curve, current_ts) ==
    IF answer # None /\ pool_addr \in DOMAIN states
    THEN Append(pool_prices,
                [addr  |-> pool_addr,
                 price |-> answer[1],
                 ttm   |-> time_to_maturity(curve, current_ts,
                                            states[pool_addr].maturity)])
    ELSE pool_prices

\* find_best_opportunity's pricing loop, one pool per step; after the last
\* pool, the selection and the edge gate up to the solver's entry
PriceStep(answer) ==
    /\ pc = "price"
    /\ LET pool_addr == config.pool_addresses[cyc.idx]
           pp   == price_pool(cyc.pool_prices, pool_addr, answer,
                              pool_states, sofr_curve, cyc.current_ts)
           last == cyc.idx = Len(config.pool_addresses)
           c    == [cyc EXCEPT !.idx = @ + 1, !.pool_prices = pp]
           h    == [hist EXCEPT !.answers = Append(@, answer)]
       IN  IF ~last
           THEN pc' = "price" /\ cyc' = c /\ hist' = h /\ sol' = sol
           ELSE \E s \in {select_pools(pp, sofr_curve, config)} :
                LET c2 == [c EXCEPT !.cheap_idx = s.cheap_idx,
                                    !.rich_idx = s.rich_idx,
                                    !.target_price = s.target_price]
                IN  CASE s.kind = "none" ->
                           Return(c2, h, <<>>) /\ sol' = sol
                      [] s.kind = "panic" ->
                           Abort(c2, h, <<>>, "as_u32") /\ sol' = sol
                      [] s.kind = "solve" ->
                           /\ pc' = "solve" /\ cyc' = c2 /\ hist' = h
                           /\ sol' = StartSolver(s.target_price,
                                                 config.max_fy_amount)
    /\ UNCHANGED <<config, sofr_curve, pool_states, last_block, env, call>>

\* ------------------------------------------------------------------------
\* pricing.rs: solve_fy_amount_to_target, one loop iteration per step
\* ------------------------------------------------------------------------

\* ((U256::from(lo) + U256::from(hi)) / U256::from(2)).as_u128()
bisect_mid(lo, hi) == Div(Add(lo, hi), N(2))

\* a variant that records the candidate whatever the observed price
bisect_narrow_recording(s, mid, current_price) ==
    IF Less(s.target_price_1e18, current_price)
    THEN [s EXCEPT !.best = mid, !.lo = SaturatingAdd(mid, N(1))]
    ELSE [s EXCEPT !.best = mid, !.hi = SaturatingSub(mid, N(1))]

\* a faulty variant: a price above the target moves lo past hi
bisect_narrow_past_hi(s, mid, current_price) ==
    IF Less(s.target_price_1e18, current_price)
    THEN [s EXCEPT !.best = mid, !.lo = SaturatingAdd(s.hi, N(1))]
    ELSE [s EXCEPT !.hi = SaturatingSub(mid, N(1))]

\* a faulty variant: the comparison with the target is reversed
bisect_narrow_reversed(s, mid, current_price) ==
    IF Less(current_price, s.target_price_1e18)
    THEN [s EXCEPT !.best = mid, !.lo = SaturatingAdd(mid, N(1))]
    ELSE [s EXCEPT !.hi = SaturatingSub(mid, N(1))]

\* the narrowing of the interval on an observed price
bisect_narrow(s, mid, current_price) ==
    IF Less(s.target_price_1e18, current_price)
    THEN [s EXCEPT !.best = mid, !.lo = SaturatingAdd(mid, N(1))]
    ELSE [s EXCEPT !.hi = SaturatingSub(mid, N(1))]

\* if best == 0 { Ok(None) } else { Ok(Some(best)) }
solver_ret(best) == IF best = Zero THEN "None" ELSE "Some"

\* what marginal_price_base_per_fy(rich_pool) may return to the solver while
\* it stands at size mid (None: a probe fails).  "live": any answer of the
\* pool; "monotone": a pool whose reported price strictly decreases in the
\* size and is above the target exactly for sizes below env.cross; "free":
\* above or below the target at will, changing sides at most env.switches
\* times
SolverAnswers(mid) ==
    CASE env.kind = "live" -> PriceAnswers
      [] env.kind = "monotone" ->
           {Some(SaturatingSub(Add(sol.target_price_1e18, env.cross), mid))}
      [] env.kind = "free" ->
           {None} \cup
           { Some(IF a = "above" THEN Add(sol.target_price_1e18, N(1))
                  ELSE sol.target_price_1e18)
             : a \in { b \in {"above", "below"} :
                         env.last \in {"none", b} \/ env.switches > 0 } }

EnvAfter(answer) ==
    IF env.kind # "free" \/ answer = None THEN env
    ELSE LET a == IF Less(sol.target_price_1e18, answer[1])
                  THEN "above" ELSE "below"
         IN  [env EXCEPT !.last = a,
                         !.switches = IF env.last \in {"none", a}
                                      THEN @ ELSE @ - 1]

\* One iteration of the for loop: the two tests at its top, the price query,
\* the narrowing and the convergence test.  The loop is left by a break, by a
\* failed query (the ? returns Err) or after MAX_BISECTION_ITERATIONS bodies.
SolveIter ==
    /\ pc = "solve"
    /\ sol.ret = "running"
    /\ LET mid == bisect_mid(sol.lo, sol.hi)
       IN  IF sol.iteration >= MAX_BISECTION_ITERATIONS \/ Leq(sol.hi, sol.lo)
              \/ mid = Zero
           THEN /\ sol' = [sol EXCEPT !.ret = solver_ret(sol.best)]
                /\ pc' = "solved"
                /\ env' = env
           ELSE \E answer \in SolverAnswers(mid) :
                /\ env' = EnvAfter(answer)
                /\ IF answer = None
                   THEN /\ sol' = [sol EXCEPT !.ret = "Err",
                                              !.queries = @ + 1]
                        /\ pc' = "solved"
                   ELSE LET s == [bisect_narrow(sol, mid, answer[1]) EXCEPT
                                     !.queries = @ + 1,
                                     !.iteration = @ + 1,
                                     !.obs = Append(@, [mid |-> mid,
                                                        price |-> answer[1]])]
                        IN  \E width \in CheckedSubU128(s.hi, s.lo) :
                              IF width.panic
                              THEN sol' = [s EXCEPT !.ret = "Abort"]
                                   /\ pc' = "solved"
                              ELSE IF Less(width.v, N(1000))
                              THEN sol' = [s EXCEPT !.ret = solver_ret(s.best)]
                                   /\ pc' = "solved"
                              ELSE sol' = s /\ pc' = "solve"
    /\ UNCHANGED <<config, sofr_curve, pool_states, last_block, cyc, hist,
                   call>>

\* ------------------------------------------------------------------------
\* strategy.rs: the rest of find_best_opportunity, execute_arbitrage
\* ------------------------------------------------------------------------

\* find_best_opportunity takes the solver's result: ? on Err, Ok(None) on
\* None (Some(0) does not occur), else on to the cheap pool's buy preview
SolverReturn ==
    /\ pc = "solved"
    /\ CASE sol.ret = "Abort" -> Abort(cyc, hist, <<>>, "hi - lo")
         [] sol.ret = "Err" -> Return([cyc EXCEPT !.err = TRUE], hist, <<>>)
         [] sol.ret = "None" -> Return(cyc, hist, <<>>)
         [] sol.ret = "Some" ->
              IF Less(Zero, sol.best)
              THEN /\ pc' = "buy_preview"
                   /\ cyc' = [cyc EXCEPT !.fy_amount = sol.best]
                   /\ hist' = hist
              ELSE Return(cyc, hist, <<>>)
    /\ UNCHANGED <<config, sofr_curve, pool_states, last_block, sol, env,
                   call>>

\* cheap_pool.buy_fy_token_preview(fy_amount).call().await?
BuyPreview(answer) ==
    /\ pc = "buy_preview"
    /\ IF answer = None
       THEN Return([cyc EXCEPT !.err = TRUE], hist, <<>>)
       ELSE /\ pc' = "sell_preview"
            /\ cyc' = [cyc EXCEPT !.max_base_in = answer[1]]
            /\ hist' = hist
    /\ UNCHANGED <<config, sofr_curve, pool_states, last_block, sol, env,
                   call>>

\* the ArbOpportunity find_best_opportunity builds
opportunity_of(c) ==
    [cheap_pool      |-> c.pool_prices[c.cheap_idx].addr,
     rich_pool       |-> c.pool_prices[c.rich_idx].addr,
     fy_amount       |-> c.fy_amount,
     max_base_in     |-> c.max_base_in_slip,
     min_base_out    |-> c.min_base_out_slip,
     expected_profit |-> c.expected_profit,
     target_price    |-> c.target_price,
     cheap_price     |-> c.pool_prices[c.cheap_idx].price,
     rich_price      |-> c.pool_prices[c.rich_idx].price]

\* a variant that takes the profit against the slippage-inflated cost
expected_profit_after_slippage(max_base_in, min_base_out) ==
    SaturatingSub(min_base_out,
                  SaturatingAdd(max_base_in,
                                Div(Mul(max_base_in, N(50)), N(10000))))

\* let expected_profit = min_base_out.saturating_sub(max_base_in)
expected_profit_of(max_base_in, min_base_out) ==
    SaturatingSub(min_base_out, max_base_in)

\* a variant without the position limit
no_position_limit(max_base_in_slip, cfg) == FALSE

\* if max_base_in_slip > self.config.max_base_amount
exceeds_position_limit(max_base_in_slip, cfg) ==
    Less(cfg.max_base_amount, max_base_in_slip)

\* rich_pool.sell_fy_token_preview(fy_amount).call().await?, then the rest of
\* find_best_opportunity (profit before slippage, slippage, position limit),
\* and on Ok(Some(opp)) execute_arbitrage up to its gas estimate
SellPreview(answer) ==
    /\ pc = "sell_preview"
    /\ IF answer = None
       THEN Return([cyc EXCEPT !.err = TRUE], hist, <<>>)
       ELSE LET c1 == [cyc EXCEPT !.min_base_out = answer[1]]
            IN  IF Leq(c1.min_base_out, c1.max_base_in)
                THEN Return(c1, hist, <<>>)
                ELSE \E si \in apply_slippage(c1.max_base_in,
                                              config.slippage_bps, TRUE),
                        so \in apply_slippage(c1.min_base_out,
                                              config.slippage_bps, FALSE) :
                     LET c2 == [c1 EXCEPT
                                  !.expected_profit =
                                      expected_profit_of(c1.max_base_in,
                                                         c1.min_base_out),
                                  !.max_base_in_slip = si.v,
                                  !.min_base_out_slip = so.v]
                     IN  IF si.panic \/ so.panic
                         THEN Abort(c1, hist, <<"EVALUATE">>, "apply_slippage")
                         ELSE IF exceeds_position_limit(c2.max_base_in_slip,
                                                        config)
                         THEN Return(c2, hist, <<"EVALUATE">>)
                         ELSE IF Less(Zero, c2.expected_profit)
                         THEN /\ pc' = "execute"
                              /\ cyc' = [c2 EXCEPT !.opportunity =
                                                     Some(opportunity_of(c2))]
                              /\ hist' = [hist EXCEPT !.trace =
                                            @ \o <<"EVALUATE", "EMIT">>]
                         ELSE Return(c2, hist, <<"EVALUATE">>)
    /\ UNCHANGED <<config, sofr_curve, pool_states, last_block, sol, env,
                   call>>

\* the Action execute_arbitrage returns for an opportunity and a gas estimate
submit_tx(opp, gas_estimate, cfg) ==
    [cheap_pool          |-> opp.cheap_pool,
     rich_pool           |-> opp.rich_pool,
     fy_out_target       |-> opp.fy_amount,
     max_base_in         |-> opp.max_base_in,
     min_base_out_rich   |-> opp.min_base_out,
     gas                 |-> Div(Mul(gas_estimate, N(120)), N(100)),
     total_profit        |-> opp.expected_profit,
     bid_percentage      |-> cfg.bid_percentage]

\* execute_arbitrage from call.estimate_gas().await on; process_new_block
\* returns vec![action]
ExecuteArbitrage(answer) ==
    /\ pc = "execute"
    /\ LET gas_estimate == IF answer = None THEN N(500000) ELSE answer[1]
           action == submit_tx(cyc.opportunity[1], gas_estimate, config)
       IN  Return([cyc EXCEPT !.actions = <<action>>], hist, <<>>)
    /\ UNCHANGED <<config, sofr_curve, pool_states, last_block, sol, env,
                   call>>

\* ------------------------------------------------------------------------
\* Specifications
\* ------------------------------------------------------------------------

\* The engine (bin/numo main.rs: "sync_state() is called automatically by the
\* Engine"): sync_state once, then process_event for every block notification
Next ==
    \/ \E answer \in StateAnswers : SyncState(answer)
    \/ \E n \in 1..MaxBlock : NewBlock(n, Now)
    \/ \E answer \in PriceAnswers : PriceStep(answer)
    \/ SolveIter
    \/ SolverReturn
    \/ \E answer \in BuyAnswers : BuyPreview(answer)
    \/ \E answer \in SellAnswers : SellPreview(answer)
    \/ \E answer \in GasAnswers : ExecuteArbitrage(answer)

Spec == Init /\ [][Next]_vars

\* Config::default (types.rs)
DefaultConfig ==
    [pool_addresses |-> <<>>, edge_bps |-> N(10), slippage_bps |-> N(50),
     max_fy_amount |-> Mul(N(100000), OneE18),
     max_base_amount |-> Mul(N(50000), OneE18),
     bid_percentage |-> N(80)]

\* the maximum sizes the solver is called with: small ones around the
\* tolerance band, the default cap and the largest u128
SolverMaxes ==
    { Zero, N(1), N(2), N(999), N(1000), N(2001), N(1000000),
      DefaultConfig.max_fy_amount, U128Max }

\* the sizes at which a monotone pool's price crosses the target
SolverCrossings ==
    { Zero, N(1), N(700), N(300000), Mul(N(60000), OneE18), U128Max }

SolverEnvs ==
    { [kind |-> "monotone", cross |-> c, switches |-> 0, last |-> "none"]
      : c \in SolverCrossings }
    \cup { [kind |-> "free", cross |-> Zero, switches |-> MaxSwitches,
             last |-> "none"] }

\* a call of solve_fy_amount_to_target(rich_pool, target, max) on its own
SolverInit ==
    /\ config = DefaultConfig
    /\ sofr_curve = default_usd
    /\ pool_states = EmptyMap
    /\ last_block = 0
    /\ pc = "solve"
    /\ cyc = FreshCycle(0, Zero)
    /\ \E max \in SolverMaxes : sol = StartSolver(OneE18, max)
    /\ env \in SolverEnvs
    /\ hist = FreshHist
    /\ call = NoCall

SolverNext == SolveIter

SolverSpec == SolverInit /\ [][SolverNext]_vars

\* the amounts and tolerances apply_slippage is called with
SlippageAmounts ==
    { Zero, N(1), N(199), N(1995), N(10000), OneE18, TwoPow64,
      Div(U128Max, U32Max), Add(Div(U128Max, U32Max), N(1)),
      Div(U128Max, N(10000)), TwoPow127, Sub(U128Max, N(1)), U128Max }

SlippageBps == { Zero, N(1), N(2), N(50), N(10000), N(20000), U32Max }

\* a call of apply_slippage(amount, slippage_bps, is_max_in) on its own
SlippageInit ==
    /\ config = DefaultConfig
    /\ sofr_curve = default_usd
    /\ pool_states = EmptyMap
    /\ last_block = 0
    /\ pc = "call"
    /\ cyc = FreshCycle(0, Zero)
    /\ sol = IdleSolver
    /\ env = LiveEnv
    /\ hist = FreshHist
    /\ \E amount \in SlippageAmounts, bps \in SlippageBps,
          is_max_in \in BOOLEAN :
          call = [fn |-> "apply_slippage",
                  args |-> <<amount, bps, is_max_in>>, out |-> None]

\* the call returns (or aborts: out.panic)
ApplySlippage ==
    /\ pc = "call"
    /\ call.fn = "apply_slippage"
    /\ \E out \in apply_slippage(call.args[1], call.args[2], call.args[3]) :
          call' = [call EXCEPT !.out = Some(out)]
    /\ pc' = "returned"
    /\ UNCHANGED <<config, sofr_curve, pool_states, last_block, cyc, sol,
                   env, hist>>

SlippageNext == ApplySlippage

SlippageSpec == SlippageInit /\ [][SlippageNext]_vars

\* ------------------------------------------------------------------------
\* Properties of the opportunity scan (Spec)
\* ------------------------------------------------------------------------

\* the cycle's pricing loop has run over every configured pool
Priced == cyc.idx > Len(config.pool_addresses)

\* find_best_opportunity returned Ok(Some(opportunity))
Returned == cyc.opportunity # None

\* the cycle reached the slippage and position-limit checks and passed them
\* without an abort
Evaluated ==
    /\ \E i \in 1..Len(hist.trace) : hist.trace[i] = "EVALUATE"
    /\ pc # "panicked"

\* C1: whenever the priced pools of a cycle are exactly two pools whose
\* marginal prices are equal, the cycle reports no opportunity (and emits no
\* action), whatever the target, the edge threshold and the later answers.
TieReportsNoOpportunity ==
    ( /\ Priced
      /\ Len(cyc.pool_prices) = 2
      /\ cyc.pool_prices[1].addr # cyc.pool_prices[2].addr
      /\ cyc.pool_prices[1].price = cyc.pool_prices[2].price )
    => (cyc.opportunity = None /\ cyc.actions = <<>>)

\* C2, as amended: in every returned opportunity expected_profit is the raw
\* proceeds minus the raw cost (the two previews before the slippage
\* adjustment), and it is strictly positive.
ExpectedProfitIsRawSpread ==
    Returned =>
        /\ Less(cyc.max_base_in, cyc.min_base_out)
        /\ cyc.opportunity[1].expected_profit
               = Sub(cyc.min_base_out, cyc.max_base_in)
        /\ Less(Zero, cyc.opportunity[1].expected_profit)

\* C2, as stated: in every returned opportunity expected_profit is the
\* opportunity's min_base_out minus its max_base_in (both after the slippage
\* adjustment), clamped at zero.
ExpectedProfitIsAdjustedSpread ==
    Returned =>
        cyc.opportunity[1].expected_profit
            = SaturatingSub(cyc.opportunity[1].min_base_out,
                            cyc.opportunity[1].max_base_in)

\* an opportunity was returned whose two limits the slippage adjustment moved
ReturnedWithSlippage ==
    /\ Returned
    /\ Less(cyc.max_base_in, cyc.opportunity[1].max_base_in)
    /\ Less(cyc.opportunity[1].min_base_out, cyc.min_base_out)
    /\ cyc.actions # <<>>

\* C4: a candidate whose slippage-adjusted cost exceeds max_base_amount is
\* rejected (no opportunity, no action), also when the raw proceeds exceed the
\* raw cost; every returned opportunity has max_base_in <= max_base_amount.
PositionLimitEnforced ==
    /\ Returned =>
           Leq(cyc.opportunity[1].max_base_in, config.max_base_amount)
    /\ Evaluated =>
           /\ [panic |-> FALSE, v |-> cyc.max_base_in_slip]
                  \in apply_slippage(cyc.max_base_in, config.slippage_bps,
                                     TRUE)
           /\ Less(config.max_base_amount, cyc.max_base_in_slip)
                  => (cyc.opportunity = None /\ cyc.actions = <<>>)

\* a candidate with raw proceeds above raw cost was rejected for its size
RejectedOverLimit ==
    /\ Evaluated
    /\ pc = "idle"
    /\ Less(cyc.max_base_in, cyc.min_base_out)
    /\ Leq(cyc.max_base_in, config.max_base_amount)
    /\ Less(config.max_base_amount, cyc.max_base_in_slip)
    /\ cyc.opportunity = None
    /\ cyc.actions = <<>>

\* C8: in every returned opportunity cheap_pool and rich_pool are different
\* pools, for every configured list (a list naming a pool twice included) and
\* every combination of price-query successes and failures.
CheapAndRichDiffer ==
    Returned => cyc.opportunity[1].cheap_pool # cyc.opportunity[1].rich_pool

\* ------------------------------------------------------------------------
\* Properties of the cycle and of sync_state (Spec)
\* ------------------------------------------------------------------------

\* the paths of a cycle that returns
CyclePaths ==
    { <<"SCAN", "END">>, <<"SCAN", "EVALUATE", "END">>,
      <<"SCAN", "EVALUATE", "EMIT", "END">> }

\* the paths of a cycle cut short by an arithmetic abort
AbortedPaths == { <<"SCAN", "ABORT">>, <<"SCAN", "EVALUATE", "ABORT">> }

IsPrefix(p, t) == Len(p) <= Len(t) /\ SubSeq(t, 1, Len(p)) = p

list_without(list, i) ==
    SubSeq(list, 1, i - 1) \o SubSeq(list, i + 1, Len(list))

\* the cache sync_state leaves for a list: only configured pools are read
states_of(states, list) ==
    [a \in {b \in DOMAIN states : \E j \in 1..Len(list) : list[j] = b}
       |-> states[a]]

\* find_best_opportunity's pricing loop over the first i configured pools
RECURSIVE price_all(_, _, _, _, _, _)
price_all(list, answers, states, curve, current_ts, i) ==
    IF i = 0 THEN <<>>
    ELSE price_pool(price_all(list, answers, states, curve, current_ts, i - 1),
                    list[i], answers[i], states, curve, current_ts)

\* what a selection hands to the solver: nothing, or the two pools and the
\* target
scan_view(pool_prices, s) ==
    IF s.kind = "none" THEN [kind |-> "none"]
    ELSE [kind |-> s.kind, cheap |-> pool_prices[s.cheap_idx],
          rich |-> pool_prices[s.rich_idx], target_price |-> s.target_price]

pick_view(pool_prices, curve, cfg) ==
    scan_view(pool_prices, select_pools(pool_prices, curve, cfg))

\* find_best_opportunity from its entry to the solver's entry, for a
\* configured list, its cache and the answers to its price queries
scan_outcome(list, answers, states, curve, cfg, current_ts) ==
    IF Cardinality(DOMAIN states) < 2 THEN [kind |-> "none"]
    ELSE pick_view(price_all(list, answers, states, curve, current_ts,
                             Len(list)),
                   curve, cfg)

\* C9: a failed marginal-price query of a configured pool does not abort the
\* cycle, and the scan's outcome is that of a cycle whose configured list
\* does not hold that entry, the other pools answering the same.
PriceFailureIsolated ==
    (last_block > 0 /\ Len(hist.answers) = Len(config.pool_addresses)) =>
        \A i \in 1..Len(hist.answers) :
            hist.answers[i] = None =>
                /\ Priced
                /\ Returned =>
                       scan_outcome(list_without(config.pool_addresses, i),
                                    list_without(hist.answers, i),
                                    states_of(pool_states,
                                        list_without(config.pool_addresses, i)),
                                    sofr_curve, config, cyc.current_ts)
                         = [kind |-> "solve",
                            cheap |-> cyc.pool_prices[cyc.cheap_idx],
                            rich |-> cyc.pool_prices[cyc.rich_idx],
                            target_price |-> cyc.target_price]
                /\ scan_outcome(config.pool_addresses, hist.answers,
                                pool_states, sofr_curve, config,
                                cyc.current_ts)
                     = scan_outcome(list_without(config.pool_addresses, i),
                                    list_without(hist.answers, i),
                                    states_of(pool_states,
                                        list_without(config.pool_addresses, i)),
                                    sofr_curve, config, cyc.current_ts)

\* C10: sync_state always completes; a pool whose state read fails keeps its
\* cache entry exactly as before (stale if present, absent if not), a pool
\* whose read succeeds has its entry overwritten with the state just read,
\* and the other pools' entries are not touched.
SyncKeepsOrOverwrites ==
    /\ pc = "sync" => hist.sync_idx <= Len(config.pool_addresses)
    /\ hist.sync_idx > Len(config.pool_addresses)
           => (pc # "sync" /\ hist.syncs = 1)
    /\ (hist.syncs = 1 /\ hist.trace = <<>>) => pc = "idle"
    /\ pc = "panicked" => hist.trace # <<>>
    /\ hist.sync_read.fn = "get_pool_state" =>
           LET pool   == hist.sync_read.args[1]
               before == hist.sync_read.args[2]
               out    == hist.sync_read.out
           IN  /\ out = None => pool_states = before
               /\ out # None =>
                      /\ DOMAIN pool_states = DOMAIN before \cup {pool}
                      /\ pool_states[pool] = out[1]
                      /\ out[1].address = pool
                      /\ \A q \in DOMAIN before \ {pool} :
                             pool_states[q] = before[q]

\* a failed read left a stale entry in place while another pool's entry was
\* loaded
StaleEntryKept ==
    /\ hist.sync_read.fn = "get_pool_state"
    /\ hist.sync_read.out = None
    /\ hist.sync_read.args[1] \in DOMAIN hist.sync_read.args[2]
    /\ pool_states = hist.sync_read.args[2]
    /\ Cardinality(DOMAIN pool_states) = 2
    /\ pc = "idle"

\* ------------------------------------------------------------------------
\* Properties of solve_fy_amount_to_target (SolverSpec)
\* ------------------------------------------------------------------------

\* the solver returned Ok(None) or Ok(Some(best)): no query failed
SolverReturned == pc = "solved" /\ sol.ret \in {"None", "Some"}

\* C5: for every maximum size and every pool whose reported price decreases
\* in the traded size, the solver leaves its loop within 25 iterations with
\* the interval narrowed to hi - lo < 1000.
SolverConverges ==
    (SolverReturned /\ env.kind = "monotone") =>
        /\ sol.iteration <= MAX_BISECTION_ITERATIONS
        /\ Leq(sol.hi, sol.lo) \/ Less(Sub(sol.hi, sol.lo), N(1000))

\* the size of the last of the first i observations whose price was above
\* the target, Zero if there is none
RECURSIVE LastAbove(_, _, _)
LastAbove(obs, target, i) ==
    IF i = 0 THEN Zero
    ELSE IF Less(target, obs[i].price) THEN obs[i].mid
    ELSE LastAbove(obs, target, i - 1)

\* C6: a search that returns (no price query of it having failed) returns
\* none when max is 0, without a query, and whenever every price it observed
\* was at or below the target; otherwise it returns the last mid at which
\* the observed price was above the target, and that is at least 1.
SolverResult ==
    SolverReturned =>
        /\ Len(sol.obs) = sol.queries
        /\ sol.max_fy_amount = Zero => (sol.ret = "None" /\ sol.queries = 0)
        /\ (\A i \in 1..Len(sol.obs) :
                Leq(sol.obs[i].price, sol.target_price_1e18))
               => sol.ret = "None"
        /\ (\E i \in 1..Len(sol.obs) :
                Less(sol.target_price_1e18, sol.obs[i].price))
               => /\ sol.ret = "Some"
                  /\ sol.best = LastAbove(sol.obs, sol.target_price_1e18,
                                          Len(sol.obs))
                  /\ Leq(N(1), sol.best)

\* the solver returned a candidate recorded before its last observation
ReturnedEarlierCandidate ==
    /\ SolverReturned
    /\ sol.ret = "Some"
    /\ Len(sol.obs) >= 3
    /\ Leq(sol.obs[Len(sol.obs)].price, sol.target_price_1e18)
    /\ Less(sol.best, sol.obs[Len(sol.obs)].mid)

\* ------------------------------------------------------------------------
\* Properties of apply_slippage (SlippageSpec)
\* ------------------------------------------------------------------------

\* C7: for every u128 amount and every u32 tolerance apply_slippage returns
\* min(amount + floor(amount * bps / 10000), 2^128 - 1) for a maximum input
\* and max(amount - floor(amount * bps / 10000), 0) for a minimum output,
\* without overflow, wrap-around or abort.
SlippageSaturates ==
    (pc = "returned" /\ call.fn = "apply_slippage") =>
        LET amount == call.args[1]
            adjustment == Div(Mul(call.args[1], call.args[2]), N(10000))
        IN  /\ ~call.out[1].panic
            /\ call.out[1].v =
                   IF call.args[3]
                   THEN Min(Add(amount, adjustment), U128Max)
                   ELSE IF Less(amount, adjustment) THEN Zero
                        ELSE Sub(amount, adjustment)

\* ------------------------------------------------------------------------
\* Frame of a cycle (Spec)
\* ------------------------------------------------------------------------

\* the part of the strategy a cycle may not touch
Frame == <<pool_states, config, sofr_curve>>

\* C11: every step of a cycle, from the block notification to its last
\* step and whatever the outcome, leaves the pool-state cache, the Config
\* and the discount curve unchanged; last_block changes only in the step
\* that takes the notification, where it becomes the notification's block
\* number.
CycleFrame ==
    [][pc # "sync" =>
          /\ Frame' = Frame
          /\ IF pc = "idle"
             THEN last_block' = cyc'.block_number
             ELSE last_block' = last_block]_vars

\* a cycle on block 2 ended with an emitted action over a filled cache
FrameAfterEmit ==
    /\ pc = "idle"
    /\ cyc.actions # <<>>
    /\ cyc.block_number = 2
    /\ last_block = 2
    /\ Cardinality(DOMAIN pool_states) >= 2

\* ------------------------------------------------------------------------
\* Edge gating on its own (EdgeSpec)
\* ------------------------------------------------------------------------

\* pool prices and targets (U256), the unit tests' values among them
EdgePrices ==
    { Zero, N(995000), N(1000000), N(1001000), N(1001500), N(1002000),
      N(1010000), Mul(N(429497), N(1000000)), Mul(N(429498), N(1000000)),
      OneE18, Mul(N(500000), OneE18), Mul(OneE18, Mul(N(1000), N(100000))),
      U128Max, U256Max }

EdgeTargets == { Zero, N(1), N(1000000), OneE18, U128Max }

EdgeBps == { Zero, N(10), N(15), N(20), U32Max }

\* a call of meets_edge_threshold(pool_price, target_price, edge_bps)
EdgeInit ==
    /\ config = DefaultConfig
    /\ sofr_curve = default_usd
    /\ pool_states = EmptyMap
    /\ last_block = 0
    /\ pc = "call"
    /\ cyc = FreshCycle(0, Zero)
    /\ sol = IdleSolver
    /\ env = LiveEnv
    /\ hist = FreshHist
    /\ \E pool_price \in EdgePrices, target_price \in EdgeTargets,
          edge_bps \in EdgeBps :
          call = [fn |-> "meets_edge_threshold",
                  args |-> <<pool_price, target_price, edge_bps>>,
                  out |-> None]

\* the call returns (or aborts: out.panic)
MeetsEdgeThreshold ==
    /\ pc = "call"
    /\ call.fn = "meets_edge_threshold"
    /\ call' = [call EXCEPT !.out =
                   Some(meets_edge_threshold(call.args[1], call.args[2],
                                             call.args[3]))]
    /\ pc' = "returned"
    /\ UNCHANGED <<config, sofr_curve, pool_states, last_block, cyc, sol,
                   env, hist>>

EdgeNext == MeetsEdgeThreshold

EdgeSpec == EdgeInit /\ [][EdgeNext]_vars

\* C12: for every pool price p, target t and threshold edgeBps,
\* meets_edge_threshold(p, t, edgeBps) returns, and returns true exactly
\* when d >= edgeBps with d = floor(|p - t| * 10000 / t) for t > 0 and
\* d = 0 for t = 0 (d = edgeBps accepted).
EdgeGateDefined ==
    (pc = "returned" /\ call.fn = "meets_edge_threshold") =>
        LET p == call.args[1]
            t == call.args[2]
            d == IF t = Zero THEN Zero
                 ELSE Div(Mul(IF Less(t, p) THEN Sub(p, t) ELSE Sub(t, p),
                              N(10000)), t)
        IN  /\ ~call.out[1].panic
            /\ call.out[1].v = Leq(call.args[3], d)

\* ------------------------------------------------------------------------
\* calculate_profit on its own (ProfitSpec)
\* ------------------------------------------------------------------------

\* a signed integer: sign and magnitude, zero is not negative
Signed(neg, mag) == [neg |-> neg /\ mag # Zero, mag |-> mag]

\* a - b on signed integers, exact
SignedSub(a, b) ==
    IF a.neg # b.neg THEN Signed(a.neg, Add(a.mag, b.mag))
    ELSE IF Leq(b.mag, a.mag) THEN Signed(a.neg, Sub(a.mag, b.mag))
         ELSE Signed(~a.neg, Sub(b.mag, a.mag))

\* x as i128 for a u128 x: the bit pattern is kept, 2^127 and above turn
\* negative
as_i128(x) ==
    IF Less(x, TwoPow127) THEN Signed(FALSE, x)
    ELSE Signed(TRUE, Sub(TwoPow128, x))

\* -2^127 <= r <= 2^127 - 1
InI128(r) ==
    IF r.neg THEN Leq(r.mag, TwoPow127) ELSE Less(r.mag, TwoPow127)

\* i128 subtraction: a result outside the range aborts (overflow checks
\* on) or wraps modulo 2^128 (overflow checks off)
CheckedSubI128(a, b) ==
    IF InI128(SignedSub(a, b))
    THEN {[panic |-> FALSE, v |-> SignedSub(a, b)]}
    ELSE {[panic |-> TRUE, v |-> Signed(FALSE, Zero)],
          [panic |-> FALSE,
           v |-> Signed(~SignedSub(a, b).neg,
                        Sub(TwoPow128, SignedSub(a, b).mag))]}

\* calculate_profit: the outcomes of one call
calculate_profit(base_spent, base_received, estimated_gas_cost) ==
    { [panic |-> net_profit.panic,
       gross |-> SaturatingSub(base_received, base_spent),
       net |-> net_profit.v]
      : net_profit \in
          CheckedSubI128(as_i128(SaturatingSub(base_received, base_spent)),
                         as_i128(estimated_gas_cost)) }

\* the amounts calculate_profit is called with (u128), the unit tests'
\* values among them
ProfitAmounts ==
    { Zero, N(20), N(100), N(1000), N(1050), N(1100),
      Sub(TwoPow127, N(1)), TwoPow127, U128Max }

\* a call of calculate_profit(base_spent, base_received, estimated_gas_cost)
ProfitInit ==
    /\ config = DefaultConfig
    /\ sofr_curve = default_usd
    /\ pool_states = EmptyMap
    /\ last_block = 0
    /\ pc = "call"
    /\ cyc = FreshCycle(0, Zero)
    /\ sol = IdleSolver
    /\ env = LiveEnv
    /\ hist = FreshHist
    /\ \E base_spent \in ProfitAmounts, base_received \in ProfitAmounts,
          estimated_gas_cost \in ProfitAmounts :
          call = [fn |-> "calculate_profit",
                  args |-> <<base_spent, base_received, estimated_gas_cost>>,
                  out |-> None]

\* the call returns (or aborts: out.panic)
CalculateProfit ==
    /\ pc = "call"
    /\ call.fn = "calculate_profit"
    /\ \E out \in calculate_profit(call.args[1], call.args[2], call.args[3]) :
          call' = [call EXCEPT !.out = Some(out)]
    /\ pc' = "returned"
    /\ UNCHANGED <<config, sofr_curve, pool_states, last_block, cyc, sol,
                   env, hist>>

ProfitNext == CalculateProfit

ProfitSpec == ProfitInit /\ [][ProfitNext]_vars

\* C13: for all u128 inputs calculate_profit(spent, received, gas) returns
\* gross = max(received - spent, 0) and net = gross - gas, the exact signed
\* difference.
ProfitIsExact ==
    (pc = "returned" /\ call.fn = "calculate_profit") =>
        LET gross == IF Less(call.args[2], call.args[1]) THEN Zero
                     ELSE Sub(call.args[2], call.args[1])
        IN  /\ ~call.out[1].panic
            /\ call.out[1].gross = gross
            /\ call.out[1].net =
                   SignedSub(Signed(FALSE, gross),
                             Signed(FALSE, call.args[3]))

\* ------------------------------------------------------------------------
\* The discount curve on its own (CurveSpec)
\* ------------------------------------------------------------------------

\* curves with knots sorted by t and non-negative rates: the default one,
\* none, a flat one, a rising one and two inverted ones
Curves ==
    { default_usd,
      [knots |-> <<>>, day_count |-> "Act360"],
      [knots |-> << [t |-> Dec4(10000), rate |-> Dec4(500)] >>,
       day_count |-> "Act360"],
      [knots |-> << [t |-> Dec4(5000),  rate |-> Dec4(100)],
                    [t |-> Dec4(20000), rate |-> Dec4(800)] >>,
       day_count |-> "Act365"],
      [knots |-> << [t |-> Dec4(10000), rate |-> Dec4(1000)],
                    [t |-> Dec4(20000), rate |-> Dec4(500)] >>,
       day_count |-> "Act360"],
      [knots |-> << [t |-> Dec4(10000), rate |-> Dec4(1000)],
                    [t |-> Dec4(20000), rate |-> Dec4(0)] >>,
       day_count |-> "Act360"] }

\* times to maturity in years
CurveTimes ==
    { RatZero, Dec4(28), Dec4(2500), Dec4(5000), Dec4(10000), Dec4(15000),
      Dec4(20000), Dec4(30000) }

\* two calls of discount_factor on one curve, at t1 <= t2
CurveInit ==
    /\ config = DefaultConfig
    /\ sofr_curve \in Curves
    /\ pool_states = EmptyMap
    /\ last_block = 0
    /\ pc = "call"
    /\ cyc = FreshCycle(0, Zero)
    /\ sol = IdleSolver
    /\ env = LiveEnv
    /\ hist = FreshHist
    /\ \E t1 \in CurveTimes, t2 \in CurveTimes :
          /\ RatLeq(t1, t2)
          /\ call = [fn |-> "discount_factor", args |-> <<t1, t2>>,
                     out |-> None]

\* both calls return
DiscountFactors ==
    /\ pc = "call"
    /\ call.fn = "discount_factor"
    /\ call' = [call EXCEPT !.out =
                   Some(<<discount_factor(sofr_curve, call.args[1]),
                          discount_factor(sofr_curve, call.args[2])>>)]
    /\ pc' = "returned"
    /\ UNCHANGED <<config, sofr_curve, pool_states, last_block, cyc, sol,
                   env, hist>>

CurveNext == DiscountFactors

CurveSpec == CurveInit /\ [][CurveNext]_vars

\* C14: on every curve with knots sorted by t and non-negative rates,
\* discount_factor(t) = 1 for t <= 0, and t1 <= t2 implies
\* discount_factor(t1) >= discount_factor(t2).
DiscountFactorMonotone ==
    (pc = "returned" /\ call.fn = "discount_factor") =>
        /\ RatLeq(call.args[1], RatZero) =>
               /\ RatLeq(call.out[1][1], RatOne)
               /\ RatLeq(RatOne, call.out[1][1])
        /\ RatLeq(call.out[1][2], call.out[1][1])

\* ------------------------------------------------------------------------
\* Further properties of the opportunity scan (Spec)
\* ------------------------------------------------------------------------

\* the pools the cycle has priced so far
PricedPools == { cyc.pool_prices[i].addr : i \in 1..Len(cyc.pool_prices) }

\* C15: a cycle in which fewer than two configured pools are priced (in
\* particular one with a single configured pool) reports no opportunity and
\* emits no action.
FewerThanTwoPricedIsNone ==
    (Cardinality(PricedPools) < 2 \/ Len(config.pool_addresses) = 1)
        => (cyc.opportunity = None /\ cyc.actions = <<>>)

\* a sequence in another order: entry i of the result is entry f[i]
reordered(seq, f) == [i \in 1..Len(seq) |-> seq[f[i]]]

\* every pool answered its price queries of this cycle the same way
AnswersPerPool ==
    \A i, j \in 1..Len(hist.answers) :
        config.pool_addresses[i] = config.pool_addresses[j]
            => hist.answers[i] = hist.answers[j]

\* C16: for fixed pools and fixed answers of every pool's price query, the
\* scan chooses the same cheap pool, rich pool and target (or nothing) for
\* every ordering of the configured pool list.
ScanOrderIndependent ==
    ( /\ last_block > 0
      /\ Len(hist.answers) = Len(config.pool_addresses)
      /\ AnswersPerPool )
    => \A f \in Permutations(1..Len(config.pool_addresses)) :
           scan_outcome(reordered(config.pool_addresses, f),
                        reordered(hist.answers, f),
                        pool_states, sofr_curve, config, cyc.current_ts)
             = scan_outcome(config.pool_addresses, hist.answers,
                            pool_states, sofr_curve, config, cyc.current_ts)

\* ------------------------------------------------------------------------
\* Termination and interval of solve_fy_amount_to_target
\* ------------------------------------------------------------------------

\* C17: for every max and every sequence of answers of the price oracle
\* (failures included) the search returns after at most 25 iterations and
\* at most 25 marginal-price queries: while it has not returned it can take
\* its next iteration; an iteration that finds hi <= lo or mid = 0 (or the
\* iteration budget used up) ends the search without a query; every other
\* iteration makes exactly one query and either ends the search or counts
\* one more iteration, of which there are never more than 25.
SolverTerminates ==
    /\ [](/\ sol.queries <= MAX_BISECTION_ITERATIONS
          /\ sol.iteration <= MAX_BISECTION_ITERATIONS
          /\ pc \in {"solve", "solved"}
          /\ pc = "solve" =>
                 /\ sol.ret = "running"
                 /\ SolverAnswers(bisect_mid(sol.lo, sol.hi)) # {})
    /\ [][pc = "solve" =>
             IF \/ Leq(sol.hi, sol.lo)
                \/ bisect_mid(sol.lo, sol.hi) = Zero
                \/ sol.iteration >= MAX_BISECTION_ITERATIONS
             THEN pc' = "solved" /\ sol'.queries = sol.queries
             ELSE /\ sol'.queries = sol.queries + 1
                  /\ pc' = "solve" => sol'.iteration = sol.iteration + 1]_vars

\* a search that used all 25 iterations and queries
SolverBudgetUsed ==
    /\ pc = "solved"
    /\ sol.queries = MAX_BISECTION_ITERATIONS
    /\ sol.iteration = MAX_BISECTION_ITERATIONS
    /\ sol.ret = "Some"

\* C18: at every point of the search 0 <= lo <= hi <= max and best <= max,
\* so that hi - lo in the convergence test does not underflow and a returned
\* size is at most max.
SolverIntervalInvariant ==
    /\ Leq(sol.lo, sol.hi)
    /\ Leq(sol.hi, sol.max_fy_amount)
    /\ Leq(sol.best, sol.max_fy_amount)
    /\ sol.ret # "Abort"

\* both ends of the interval have moved and a candidate is recorded
SolverBothEndsMoved ==
    /\ pc = "solve"
    /\ Less(Zero, sol.lo)
    /\ Less(sol.hi, sol.max_fy_amount)
    /\ Less(sol.lo, sol.hi)
    /\ Less(Zero, sol.best)

\* ------------------------------------------------------------------------
\* Direction of the edge (Spec)
\* ------------------------------------------------------------------------

\* the rich pool quoted the solver, every time, the price the scan saw, and
\* every pool answered the scan's queries the same way
ConstantQuotes ==
    /\ AnswersPerPool
    /\ \A i \in 1..Len(sol.obs) :
           sol.obs[i].price = cyc.pool_prices[cyc.rich_idx].price

\* C19: in a cycle during which the pools' quotes are constant, every
\* returned opportunity has rich_price strictly above target_price, and a
\* rich pool priced at or below the target yields no opportunity and no
\* action, whatever the divergence.
EdgeDirection ==
    (last_block > 0 /\ Priced /\ cyc.rich_idx > 0 /\ ConstantQuotes) =>
        /\ Returned =>
               Less(cyc.opportunity[1].target_price,
                    cyc.opportunity[1].rich_price)
        /\ Leq(cyc.pool_prices[cyc.rich_idx].price, cyc.target_price) =>
               (cyc.opportunity = None /\ cyc.actions = <<>>)

\* a rich pool below the target passed the edge gate, the solver queried it
\* at a constant quote, and the cycle ended without an opportunity
BelowTargetRejected ==
    /\ pc = "idle"
    /\ last_block > 0
    /\ cyc.rich_idx > 0
    /\ ConstantQuotes
    /\ sol.queries > 0
    /\ sol.ret = "None"
    /\ Less(cyc.pool_prices[cyc.rich_idx].price, cyc.target_price)
    /\ cyc.opportunity = None


====
